---- MODULE Spec2Model ----
(***************************************************************************)
(* Model of the kids-supplements enrichment pipeline:                      *)
(*   - the OCR keyword scorer and the label-image selector                 *)
(*     (analyze_image_for_supplement_facts, find_supplement_facts_image),  *)
(*   - the OpenAI extraction client and its cache                          *)
(*     (analyze_supplement_facts),                                         *)
(*   - row reconciliation and the run driver                               *)
(*     (process_detailed_products, main),                                  *)
(* in the two variants of the repository: pipeline_openai_complete.py      *)
(* ("openai") and pipeline_with_google_drive.py ("drive").                 *)
(*                                                                         *)
(* Confidence values and keyword weights are in hundredths (0.9 -> 90).    *)
(* For every keyword combination the comparison of the sum with the        *)
(* acceptance threshold gives the same answer in hundredths as in the      *)
(* IEEE-754 doubles of the source.                                         *)
(***************************************************************************)
EXTENDS Integers, Sequences, FiniteSets, TLC

VARIABLES
    variant,                \* which pipeline file runs: "openai" or "drive"
    \* ---- label-image selector (find_supplement_facts_image) ----
    images,                 \* product_data['images'] with what each fetch will return
    k,                      \* number of list elements the for-loop has consumed
    best_image,             \* local best_image
    best_confidence,        \* local best_confidence
    evaluated,              \* positions passed to analyze_image_for_supplement_facts, in call order
    sel_pc,                 \* "loop" | "returned"
    sel_result,             \* the value returned
    supplement_facts_found, \* stats['supplement_facts_found']
    \* ---- extraction client (analyze_supplement_facts) ----
    known_extractions,      \* openai variant: the analyzer's in-memory cache dictionary
    cache_files,            \* drive variant: content of cache/<image_id>.json on disk
    request_count,          \* drive variant: self.request_count of the analyzer
    model_requests,         \* number of chat.completions.create requests issued by this process
    writer,                 \* per image id, the URL of the call that wrote its cache entry
    stored_before,          \* per image id, the entry the cache held when the previous process ended
    process,                \* number of the running process (a run constructs a new analyzer)
    last,                   \* the last analyze_supplement_facts call: inputs and outcome
    \* ---- run driver and row reconciliation (main, process_detailed_products) ----
    run,                    \* number of runs of main started so far
    pc,                     \* position of main: "idle" | "keywords" | "detail" | "save" | "done"
    csv_cwd,                \* the file kids_supplements.csv of the working directory
    csv_out,                \* openai: args.output_file; drive: output_dir/kids_supplements.csv
    existing_df,            \* main's existing_df
    df,                     \* main's df
    keyword_idx,            \* number of keywords the for-loop of main has consumed
    limit,                  \* args.detail_limit of this run
    idx,                    \* number of rows the for-loop of process_detailed_products has consumed
    processed_count,        \* local processed_count
    step,                   \* what the last loop iteration of process_detailed_products did
    last_saved,             \* the table written by the most recent save
    pages,                  \* search pages requested and failed in this run, and failed in the run before
    pass,                   \* detail passes: whether a detail fetch was made with no pause since, and the
                            \* label images a model request has returned an extraction for
    \* ---- web application (web_app.py) ----
    pipeline_status,        \* the global dictionary pipeline_status
    threads,                \* the run_pipeline threads started so far, in start order
    responses,              \* the answers given to POST /api/start, in order
    keys_set                \* whether both API keys are in the environment

selVars == <<images, k, best_image, best_confidence, evaluated, sel_pc, sel_result,
             supplement_facts_found>>

anaVars == <<known_extractions, cache_files, request_count, model_requests, writer,
             stored_before, process, last>>

pipeVars == <<run, pc, csv_cwd, csv_out, existing_df, df, keyword_idx, limit, idx,
              processed_count, step, last_saved, pages, pass>>

webVars == <<pipeline_status, threads, responses, keys_set>>

vars == <<variant, selVars, anaVars, pipeVars, webVars>>

Variants == {"openai", "drive"}

NoneVal == "None"           \* Python None where a string is expected

(***************************************************************************)
(* Recognised text.  A text is the set of lexicon phrases printed on the   *)
(* image; `keyword in all_text` is substring search, so a phrase also      *)
(* matches every keyword that is a substring of it.                        *)
(***************************************************************************)
Phrases == {"supplement facts", "supplement fact", "nutrition facts",
            "serving size", "servings per container", "amount per serving",
            "daily value", "% daily value", "%dv", "vitamin", "mineral"}

IsSubstring(kw, phrase) ==
    \/ kw = phrase
    \/ kw = "supplement fact" /\ phrase = "supplement facts"
    \/ kw = "daily value" /\ phrase = "% daily value"

InText(kw, text) == \E p \in text : IsSubstring(kw, p)

\* self.supplement_keywords of the drive variant, in list order
supplement_keywords ==
    <<"supplement facts", "supplement fact", "nutrition facts",
      "serving size", "servings per container", "amount per serving",
      "daily value", "% daily value", "%dv", "vitamin", "mineral">>

\* the `additional` list of the openai variant, in list order
additional ==
    <<[kw |-> "serving size", w |-> 20], [kw |-> "servings per container", w |-> 20],
      [kw |-> "daily value", w |-> 15], [kw |-> "% daily value", w |-> 15],
      [kw |-> "amount per serving", w |-> 10]>>

ThresholdOpenai == 60
ThresholdDrive == 30
MinScorerBytes == 10000

Threshold(v) == IF v = "openai" THEN ThresholdOpenai ELSE ThresholdDrive

Min(a, b) == IF a < b THEN a ELSE b

RECURSIVE SumSeq(_)
SumSeq(s) == IF s = <<>> THEN 0 ELSE Head(s) + SumSeq(Tail(s))

\* weight the drive variant adds for one matched keyword
DriveWeight(kw) ==
    IF kw = "supplement facts" THEN 50
    ELSE IF kw \in {"serving size", "servings per container"} THEN 20
    ELSE IF kw \in {"daily value", "% daily value", "%dv"} THEN 15
    ELSE 5

\* openai variant: keyword search over the recognised text
ScoreOpenai(text) ==
    LET anchor == IF InText("supplement facts", text) THEN <<"supplement facts">>
                  ELSE IF InText("supplement fact", text) THEN <<"supplement fact">>
                  ELSE <<>>
        anchorW == IF InText("supplement facts", text) THEN 90
                   ELSE IF InText("supplement fact", text) THEN 80
                   ELSE 0
        hits    == SelectSeq(additional, LAMBDA a : InText(a.kw, text))
        conf    == anchorW + SumSeq([j \in 1..Len(hits) |-> hits[j].w])
    IN  [confidence |-> Min(conf, 100),
         keywords_found |-> anchor \o [j \in 1..Len(hits) |-> hits[j].kw],
         contains_supplement_facts |-> conf > ThresholdOpenai]

\* drive variant: keyword search over the recognised text
ScoreDrive(text) ==
    LET hits == SelectSeq(supplement_keywords, LAMBDA kw : InText(kw, text))
        conf == SumSeq([j \in 1..Len(hits) |-> DriveWeight(hits[j])])
    IN  [confidence |-> Min(conf, 100),
         keywords_found |-> hits,
         contains_supplement_facts |-> conf >= ThresholdDrive]

NotRelevant(acc, ocr) ==
    [accessible |-> acc, contains_supplement_facts |-> FALSE, confidence |-> 0,
     keywords_found |-> <<>>, ocr_ran |-> ocr]

(***************************************************************************)
(* analyze_image_for_supplement_facts.  img describes what the network and *)
(* the OCR engine answer for the URL: status "ok" (HTTP 200),              *)
(* "http_error" (another status code) or "exception" (the request raises), *)
(* the body size, whether PIL decodes the body, whether readtext returns   *)
(* (ocr_ok) and the recognised text.  Every failure after the result dict  *)
(* is built is caught by `except Exception`, which leaves confidence 0.0   *)
(* and contains_supplement_facts False.  ocr_ran records whether readtext  *)
(* was called.                                                             *)
(***************************************************************************)
\* a scorer without the status check and the exception handler's effect
AnalyzeImageUnguarded(img) ==
    LET s == ScoreOpenai(img.text)
    IN  [accessible |-> TRUE, contains_supplement_facts |-> s.contains_supplement_facts,
         confidence |-> s.confidence, keywords_found |-> s.keywords_found,
         ocr_ran |-> TRUE]

AnalyzeImageOpenai(img) ==
    IF img.status # "ok" THEN NotRelevant(FALSE, FALSE)          \* raise_for_status / request error
    ELSE IF img.size < MinScorerBytes THEN NotRelevant(TRUE, FALSE)
    ELSE IF ~img.decodable THEN NotRelevant(TRUE, FALSE)         \* Image.open raises
    ELSE IF ~img.ocr_ok THEN NotRelevant(TRUE, TRUE)             \* readtext raises
    ELSE LET s == ScoreOpenai(img.text)
         IN  [accessible |-> TRUE, contains_supplement_facts |-> s.contains_supplement_facts,
              confidence |-> s.confidence, keywords_found |-> s.keywords_found,
              ocr_ran |-> TRUE]

AnalyzeImageDrive(img) ==
    IF img.status # "ok" THEN NotRelevant(FALSE, FALSE)          \* status_code != 200 / request error
    ELSE IF ~img.decodable THEN NotRelevant(TRUE, FALSE)         \* Image.open raises
    ELSE IF ~img.ocr_ok THEN NotRelevant(TRUE, TRUE)             \* readtext raises
    ELSE LET s == ScoreDrive(img.text)
         IN  [accessible |-> TRUE, contains_supplement_facts |-> s.contains_supplement_facts,
              confidence |-> s.confidence, keywords_found |-> s.keywords_found,
              ocr_ran |-> TRUE]

analyze_image_for_supplement_facts(v, img) ==
    IF v = "openai" THEN AnalyzeImageOpenai(img) ELSE AnalyzeImageDrive(img)

(***************************************************************************)
(* find_supplement_facts_image: one iteration of the for-loop over the     *)
(* image list.  st = [best_image, best_confidence, evaluated].             *)
(***************************************************************************)
\* a loop body that lets every relevant candidate replace the incumbent
SelectorIterStale(v, st, img, pos) ==
    IF img.link = "" THEN st
    ELSE LET analysis == analyze_image_for_supplement_facts(v, img)
             ev == Append(st.evaluated, pos)
         IN  IF analysis.accessible /\ analysis.contains_supplement_facts
                THEN [best_image |-> img.link,
                      best_confidence |-> analysis.confidence, evaluated |-> ev]
                ELSE [st EXCEPT !.evaluated = ev]

SelectorIter(v, st, img, pos) ==
    IF img.link = "" THEN st                                     \* continue
    ELSE LET analysis == analyze_image_for_supplement_facts(v, img)
             ev == Append(st.evaluated, pos)
         IN  IF /\ analysis.accessible
                /\ analysis.contains_supplement_facts
                /\ analysis.confidence > st.best_confidence
                THEN [best_image |-> img.link,
                      best_confidence |-> analysis.confidence, evaluated |-> ev]
                ELSE [st EXCEPT !.evaluated = ev]

SelectorStart == [best_image |-> NoneVal, best_confidence |-> 0, evaluated |-> <<>>]

RECURSIVE SelectorLoop(_, _, _, _)
SelectorLoop(v, st, imgs, pos) ==
    IF pos > Len(imgs) THEN st
    ELSE SelectorLoop(v, SelectorIter(v, st, imgs[pos], pos), imgs, pos + 1)

\* the value find_supplement_facts_image returns for an image list
find_supplement_facts_image(v, imgs) == SelectorLoop(v, SelectorStart, imgs, 1).best_image

(***************************************************************************)
(* JSON values.  Every value is a record [t, v]: a string, null, a number, *)
(* a list, or the marker of a key that is absent from its object.          *)
(***************************************************************************)
Str(x) == [t |-> "str", v |-> x]
Null == [t |-> "null", v |-> ""]
Num(x) == [t |-> "num", v |-> x]
List(x) == [t |-> "list", v |-> x]
Missing == [t |-> "missing", v |-> ""]

\* Python truth value of a JSON value
Truthy(x) ==
    CASE x.t = "str" -> x.v # ""
      [] x.t = "num" -> x.v # "0"
      [] x.t = "list" -> x.v # "[]"
      [] OTHER -> FALSE

Keys == {"ingredients", "dosages", "age_group", "form"}

Fields(i, d, a, f) == [ingredients |-> i, dosages |-> d, age_group |-> a, form |-> f]

NoFields == Fields(Missing, Missing, Missing, Missing)

\* dict.get(key, "")
Get(fields, key) == IF fields[key].t = "missing" THEN Str("") ELSE fields[key]

\* the tuple (ingredients, dosages, age_group, form)
Tuple4(fields) ==
    <<Get(fields, "ingredients"), Get(fields, "dosages"),
      Get(fields, "age_group"), Get(fields, "form")>>

Empties == <<Str(""), Str(""), Str(""), Str("")>>

\* a parsed JSON document: an object with some of the four keys, or another value
ObjDoc(fields) == [kind |-> "obj", f |-> fields]
OtherDoc(kind) == [kind |-> kind, f |-> NoFields]

(***************************************************************************)
(* Image URLs.  UrlToken gives, for each modelled URL, the run of          *)
(* characters that follows the last "/" up to the next character outside   *)
(* it: its text, its length, whether all its characters are in [A-Z0-9],   *)
(* and the character that follows it.                                      *)
(***************************************************************************)
Urls == {"img/B0ABCDEFGH._AC_.jpg", "img/B0ABCDEFGH_SL1500.jpg",
         "img/B0ZZZZZZZZ9-large.jpg", "img/71abcXYZ12L._AC_.jpg"}

UrlToken(url) ==
    CASE url = "img/B0ABCDEFGH._AC_.jpg" ->
            [tok |-> "B0ABCDEFGH", len |-> 10, upper |-> TRUE, sep |-> "."]
      [] url = "img/B0ABCDEFGH_SL1500.jpg" ->
            [tok |-> "B0ABCDEFGH", len |-> 10, upper |-> TRUE, sep |-> "_"]
      [] url = "img/B0ZZZZZZZZ9-large.jpg" ->
            [tok |-> "B0ZZZZZZZZ9", len |-> 11, upper |-> TRUE, sep |-> "-"]
      [] url = "img/71abcXYZ12L._AC_.jpg" ->
            [tok |-> "71abcXYZ12L", len |-> 11, upper |-> FALSE, sep |-> "."]
      [] OTHER -> [tok |-> "", len |-> 0, upper |-> FALSE, sep |-> ""]

\* re.search(r'/([A-Z0-9]{10,11})[._-]', url)
extract_image_id(url) ==
    LET m == UrlToken(url)
    IN  IF m.upper /\ m.len \in 10..11 /\ m.sep \in {".", "_", "-"} THEN m.tok ELSE ""

ImageIds == {extract_image_id(u) : u \in Urls} \ {""}

\* the keys a cache lookup can be made with: the ids and the empty string
\* that extract_image_id returns when the pattern does not match
CacheKeys == ImageIds \cup {""}

(***************************************************************************)
(* Image download of the extraction client.  att is what the successive    *)
(* GET requests return: "ok" (a body of at least 1000 bytes), "small" (a   *)
(* shorter body) or "error" (the request raises or the status is an error).*)
(***************************************************************************)
MaxRetries == 3

\* openai variant: one request, no size check
DownloadOpenai(att) ==
    [ok |-> att[1] # "error", tries |-> 1, sleeps |-> <<>>, got |-> att[1]]

RECURSIVE DownloadLoop(_, _, _)
DownloadLoop(att, attempt, sleeps) ==
    IF att[attempt + 1] = "ok"
        THEN [ok |-> TRUE, tries |-> attempt + 1, sleeps |-> sleeps, got |-> "ok"]
    ELSE IF attempt = MaxRetries - 1
        THEN [ok |-> FALSE, tries |-> attempt + 1, sleeps |-> sleeps,
              got |-> att[attempt + 1]]
    ELSE DownloadLoop(att, attempt + 1, Append(sleeps, 2 ^ attempt))

\* drive variant: _download_image with max_retries attempts
DownloadDrive(att) == DownloadLoop(att, 0, <<>>)

(***************************************************************************)
(* The model's reply.  content is the message text as a sequence of        *)
(* tokens: "fence" (three backquotes), "tag" (the word json), "ws"         *)
(* (whitespace), "prose" (any other text) and "json" (the text of one JSON *)
(* document, doc).                                                         *)
(***************************************************************************)
Tok(tk) == [tk |-> tk, doc |-> OtherDoc("none")]
JsonTok(doc) == [tk |-> "json", doc |-> doc]

RECURSIVE LStrip(_)
LStrip(c) == IF c # <<>> /\ Head(c).tk = "ws" THEN LStrip(Tail(c)) ELSE c

RECURSIVE RStrip(_)
RStrip(c) ==
    IF c # <<>> /\ c[Len(c)].tk = "ws" THEN RStrip(SubSeq(c, 1, Len(c) - 1)) ELSE c

\* str.strip()
Strip(c) == RStrip(LStrip(c))

\* the removal of the markdown code fence
Unfence(content) ==
    LET c0 == Strip(content)
        c1 == IF Len(c0) >= 2 /\ c0[1].tk = "fence" /\ c0[2].tk = "tag"
                 THEN SubSeq(c0, 3, Len(c0)) ELSE c0          \* startswith("```json")
        c2 == IF c1 # <<>> /\ c1[Len(c1)].tk = "fence"
                 THEN SubSeq(c1, 1, Len(c1) - 1) ELSE c1       \* endswith("```")
    IN  Strip(c2)

\* a parser that reads the leading JSON document and ignores what follows it
JsonLoadsLenient(c) ==
    IF c # <<>> /\ c[1].tk = "json" THEN [ok |-> TRUE, doc |-> c[1].doc]
    ELSE [ok |-> FALSE, doc |-> OtherDoc("none")]

\* json.loads: the text must be exactly one JSON document
JsonLoads(c) ==
    IF Len(c) = 1 /\ c[1].tk = "json" THEN [ok |-> TRUE, doc |-> c[1].doc]
    ELSE [ok |-> FALSE, doc |-> OtherDoc("none")]

(***************************************************************************)
(* Cache lookup and store.                                                 *)
(***************************************************************************)
\* a cache file: absent, not parseable, a JSON list, or a JSON object.  Of an
\* object only the four extracted fields are kept: the provenance keys
\* (analyzed_at, product_name, brand) are written and never read.
AbsentFile == [kind |-> "absent", f |-> NoFields]
CorruptFile == [kind |-> "corrupt", f |-> NoFields]
ListFile == [kind |-> "list", f |-> NoFields]

\* drive variant, _load_cache: None (as AbsentFile) or the parsed file content
load_cache(files, image_id) ==
    IF image_id = "" THEN AbsentFile
    ELSE IF files[image_id].kind = "corrupt" THEN AbsentFile    \* json.load raises: pass
    ELSE files[image_id]

\* drive variant, _save_cache
save_cache(files, image_id, data) ==
    IF image_id # "" THEN [files EXCEPT ![image_id] = data] ELSE files

\* what a call of analyze_supplement_facts yields
Outcome(ret, raised, how, known, files, dl, requested, counted) ==
    [ret |-> ret, raised |-> raised, how |-> how, known |-> known, files |-> files,
     tries |-> dl.tries, sleeps |-> dl.sleeps, got |-> dl.got, requested |-> requested,
     counted |-> counted]

NoDownload == [ok |-> FALSE, tries |-> 0, sleeps |-> <<>>, got |-> ""]

\* the part of both variants from the reply to the parsed document:
\* "api_error", "json_error", "not_object" or "parsed"
ParseReply(resp) ==
    IF resp.api # "ok" THEN [how |-> "api_error", doc |-> OtherDoc("none")]
    ELSE LET r == JsonLoads(Unfence(resp.content))
         IN  IF ~r.ok THEN [how |-> "json_error", doc |-> r.doc]
             ELSE IF r.doc.kind # "obj" THEN [how |-> "not_object", doc |-> r.doc]
             ELSE [how |-> "parsed", doc |-> r.doc]

\* the code after the cache check with a store that is not guarded by
\* `if image_id:`
AnalyzeOpenaiMissStoresAnyKey(known, files, url, att, resp) ==
    LET image_id == extract_image_id(url)
        dl == DownloadOpenai(att)
        pr == ParseReply(resp)
    IN  IF ~dl.ok THEN Outcome(Empties, FALSE, "download_failed", known, files, dl, FALSE, FALSE)
        ELSE IF pr.how # "parsed"
            THEN Outcome(Empties, FALSE, pr.how, known, files, dl, TRUE, FALSE)
        ELSE Outcome(Tuple4(pr.doc.f), FALSE, "parsed",
                     [known EXCEPT ![image_id] =
                         Fields(Get(pr.doc.f, "ingredients"), Get(pr.doc.f, "dosages"),
                                Get(pr.doc.f, "age_group"), Get(pr.doc.f, "form"))],
                     files, dl, TRUE, FALSE)

\* openai variant, the code after the cache check (source lines 75-157)
AnalyzeOpenaiMiss(known, files, url, att, resp) ==
    LET image_id == extract_image_id(url)
        dl == DownloadOpenai(att)
        pr == ParseReply(resp)
    IN  IF ~dl.ok THEN Outcome(Empties, FALSE, "download_failed", known, files, dl, FALSE, FALSE)
        ELSE IF pr.how # "parsed"
            THEN Outcome(Empties, FALSE, pr.how, known, files, dl, TRUE, FALSE)
        ELSE Outcome(Tuple4(pr.doc.f), FALSE, "parsed",
                     IF image_id # ""
                        THEN [known EXCEPT ![image_id] =
                                 Fields(Get(pr.doc.f, "ingredients"), Get(pr.doc.f, "dosages"),
                                        Get(pr.doc.f, "age_group"), Get(pr.doc.f, "form"))]
                        ELSE known,
                     files, dl, TRUE, FALSE)

\* openai variant of analyze_supplement_facts; known is self.known_extractions
AnalyzeOpenai(known, files, url, att, resp) ==
    LET image_id == extract_image_id(url)
    IN  IF known[image_id] # NoFields                           \* image_id in known_extractions
            THEN Outcome(Tuple4(known[image_id]), FALSE, "cache_hit", known, files,
                         NoDownload, FALSE, FALSE)
        ELSE AnalyzeOpenaiMiss(known, files, url, att, resp)

\* drive variant, the code after the cache check (source lines 289-389)
AnalyzeDriveMiss(known, files, url, product_name, brand, att, resp) ==
    LET image_id == extract_image_id(url)
        dl == DownloadDrive(att)
        pr == ParseReply(resp)
    IN  IF ~dl.ok
            THEN Outcome(Empties, FALSE, "download_failed", known, files, dl, FALSE, FALSE)
        ELSE IF pr.how = "api_error"
            THEN Outcome(Empties, FALSE, pr.how, known, files, dl, TRUE, FALSE)
        ELSE IF pr.how # "parsed"
            THEN Outcome(Empties, FALSE, pr.how, known, files, dl, TRUE, TRUE)
        ELSE LET ingredients == Get(pr.doc.f, "ingredients")
                 cache_data ==
                    [kind |-> "obj",
                     f |-> Fields(ingredients, Get(pr.doc.f, "dosages"),
                                  Get(pr.doc.f, "age_group"), Get(pr.doc.f, "form"))]
                 saved == save_cache(files, image_id, cache_data)
             IN  IF Truthy(ingredients) /\ ingredients.t # "str"  \* ingredients.split raises
                    THEN Outcome(Empties, FALSE, "log_error", known, saved, dl, TRUE, TRUE)
                    ELSE Outcome(Tuple4(pr.doc.f), FALSE, "parsed", known, saved, dl, TRUE, TRUE)

\* a drive variant that re-validates a cached entry: one without dosages is
\* treated as stale and extracted again
AnalyzeDriveRevalidate(known, files, url, product_name, brand, att, resp) ==
    LET image_id == extract_image_id(url)
        cached_result == load_cache(files, image_id)
    IN  IF cached_result.kind = "obj" /\ Truthy(Get(cached_result.f, "dosages"))
            THEN Outcome(Tuple4(cached_result.f), FALSE, "cache_hit", known, files,
                         NoDownload, FALSE, FALSE)
        ELSE AnalyzeDriveMiss(known, files, url, product_name, brand, att, resp)

\* drive variant of analyze_supplement_facts; files is the cache directory
AnalyzeDrive(known, files, url, product_name, brand, att, resp) ==
    LET image_id == extract_image_id(url)
        cached_result == load_cache(files, image_id)
    IN  IF cached_result.kind = "obj"
            THEN Outcome(Tuple4(cached_result.f), FALSE, "cache_hit", known, files,
                         NoDownload, FALSE, FALSE)
        ELSE IF cached_result.kind = "list"                      \* list.get: AttributeError
            THEN Outcome(<<>>, TRUE, "cache_not_object", known, files, NoDownload, FALSE, FALSE)
        ELSE AnalyzeDriveMiss(known, files, url, product_name, brand, att, resp)

\* an extraction client that never consults its cache
AnalyzeWithoutLookup(v, known, files, url, product_name, brand, att, resp) ==
    IF v = "openai" THEN AnalyzeOpenaiMiss(known, files, url, att, resp)
    ELSE AnalyzeDriveMiss(known, files, url, product_name, brand, att, resp)

analyze_supplement_facts(v, known, files, url, product_name, brand, att, resp) ==
    IF v = "openai" THEN AnalyzeOpenai(known, files, url, att, resp)
    ELSE AnalyzeDrive(known, files, url, product_name, brand, att, resp)

(***************************************************************************)
(* Specification of the extraction client: calls of                        *)
(* analyze_supplement_facts on one analyzer, and the start of a new        *)
(* process, which constructs a new analyzer.                               *)
(***************************************************************************)
MaxRequests == 2
MaxProcesses == 2

AttemptSeqs ==
    {<<"ok", "ok", "ok">>, <<"small", "ok", "ok">>, <<"error", "small", "ok">>,
     <<"error", "error", "small">>}

FieldsVitC == Fields(Str("Vitamin C"), Str("Vitamin C: 10 mg"), Str("4+"), Str("Gummies"))
FieldsZinc == Fields(Str("Zinc"), Str(""), Missing, Str(""))
FieldsList == Fields(List("[Iron]"), Str("Iron: 5 mg"), Null, Str("Drops"))

Reply(content) == [api |-> "ok", content |-> content]
ReplyError == [api |-> "error", content |-> <<>>]
NoReply == [api |-> "none", content |-> <<>>]
ReplyVitC == Reply(<<JsonTok(ObjDoc(FieldsVitC))>>)
ReplyFencedZinc ==
    Reply(<<Tok("fence"), Tok("tag"), Tok("ws"), JsonTok(ObjDoc(FieldsZinc)), Tok("ws"),
            Tok("fence")>>)
ReplyBareFence ==
    Reply(<<Tok("fence"), Tok("ws"), JsonTok(ObjDoc(FieldsVitC)), Tok("ws"), Tok("fence")>>)
ReplyTrailingProse == Reply(<<JsonTok(ObjDoc(FieldsVitC)), Tok("ws"), Tok("prose")>>)
ReplyProse == Reply(<<Tok("prose")>>)
ReplyNotObject == Reply(<<JsonTok(OtherDoc("list"))>>)
ReplyListField == Reply(<<JsonTok(ObjDoc(FieldsList))>>)

Replies == {ReplyError, ReplyVitC, ReplyFencedZinc, ReplyBareFence, ReplyTrailingProse,
            ReplyProse, ReplyNotObject, ReplyListField}

NoCall ==
    [url |-> "", id |-> "", resp |-> NoReply, ret |-> <<>>, raised |-> FALSE,
     how |-> "", tries |-> 0, sleeps |-> <<>>, got |-> "", requested |-> FALSE]

SelIdle ==
    /\ images = <<>>
    /\ k = 0
    /\ best_image = NoneVal
    /\ best_confidence = 0
    /\ evaluated = <<>>
    /\ sel_pc = "off"
    /\ sel_result = NoneVal
    /\ supplement_facts_found = 0

AnaIdle ==
    /\ known_extractions = [id \in CacheKeys |-> NoFields]
    /\ cache_files = [id \in CacheKeys |-> AbsentFile]
    /\ request_count = 0
    /\ model_requests = 0
    /\ writer = [id \in CacheKeys |-> ""]
    /\ stored_before = [id \in CacheKeys |-> NoFields]
    /\ process = 1
    /\ last = NoCall

NoStep ==
    [kind |-> "none", row |-> 0, fetched |-> FALSE, error |-> "", scored |-> 0,
     analyzed |-> FALSE, ret |-> <<>>]

\* no search request was made yet
NoPages == [requested |-> {}, failed |-> {}, failed_before |-> {}]

\* the module-level value of pipeline_status (web_app.py lines 18-24)
StatusReady ==
    [running |-> FALSE, progress |-> 0, message |-> "ready", results_file |-> "None"]

\* the web application is up and has received no request
WebIdle ==
    /\ pipeline_status = StatusReady
    /\ threads = <<>>
    /\ responses = <<>>
    /\ keys_set = TRUE

\* process_detailed_products has issued no detail request yet
NoPass == [unpaused |-> FALSE, extracted |-> {}, fetched |-> {}]

PipeIdle ==
    /\ run = 0
    /\ pc = "idle"
    /\ csv_cwd = <<>>
    /\ csv_out = <<>>
    /\ existing_df = <<>>
    /\ df = <<>>
    /\ keyword_idx = 0
    /\ limit = 0
    /\ idx = 0
    /\ processed_count = 0
    /\ step = NoStep
    /\ last_saved = <<>>
    /\ pages = NoPages
    /\ pass = NoPass

(***************************************************************************)
(* Inputs of the selector specification.                                   *)
(***************************************************************************)
MaxImages == 3

Links == <<"imgA", "imgB", "imgC", "imgD", "imgE">>

\* texts used in multi-candidate lists: below, at and above both thresholds
SampleTexts ==
    {{}, {"serving size"}, {"% daily value"}, {"supplement facts", "vitamin", "mineral"},
     {"serving size", "servings per container", "daily value", "amount per serving"},
     {"supplement facts", "serving size", "%dv"}}

OkImage(link, text) ==
    [link |-> link, status |-> "ok", size |-> 20000, decodable |-> TRUE, ocr_ok |-> TRUE,
     text |-> text]

\* the label text a candidate would show if it could be read
LabelText == {"supplement facts", "serving size", "servings per container"}

\* a candidate whose download, decoding or OCR fails
FailedImage(link, status, decodable, ocr_ok) ==
    [link |-> link, status |-> status, size |-> 20000, decodable |-> decodable,
     ocr_ok |-> ocr_ok, text |-> LabelText]

\* what the candidate at position pos of a list may be
Candidates(pos, texts) ==
    {OkImage(Links[pos], t) : t \in texts}
      \cup {OkImage("", LabelText),
            [link |-> Links[pos], status |-> "exception", size |-> 0, decodable |-> FALSE,
             ocr_ok |-> FALSE, text |-> {}],
            [link |-> Links[pos], status |-> "ok", size |-> 500, decodable |-> TRUE,
             ocr_ok |-> TRUE, text |-> LabelText],
            FailedImage(Links[pos], "http_error", TRUE, TRUE),
            FailedImage(Links[pos], "ok", FALSE, TRUE),
            FailedImage(Links[pos], "ok", TRUE, FALSE)}

RECURSIVE ListsOfLen(_)
ListsOfLen(n) ==
    IF n = 0 THEN {<<>>}
    ELSE {Append(s, c) : s \in ListsOfLen(n - 1), c \in Candidates(n, SampleTexts)}

\* lists of up to MaxImages sample candidates, and every single-candidate list
\* over every combination of lexicon phrases
ImageLists ==
    UNION {ListsOfLen(n) : n \in 0..MaxImages}
      \cup {<<c>> : c \in Candidates(1, SUBSET Phrases)}

InitSel ==
    /\ variant \in Variants
    /\ images \in ImageLists
    /\ k = 0
    /\ best_image = NoneVal
    /\ best_confidence = 0
    /\ evaluated = <<>>
    /\ sel_pc = "loop"
    /\ sel_result = NoneVal
    /\ supplement_facts_found = 0
    /\ AnaIdle
    /\ PipeIdle
    /\ WebIdle

\* one iteration of `for image_data in images`
SelStep ==
    /\ sel_pc = "loop"
    /\ k < Len(images)
    /\ LET st == SelectorIter(variant,
                              [best_image |-> best_image,
                               best_confidence |-> best_confidence,
                               evaluated |-> evaluated],
                              images[k + 1], k + 1)
       IN  /\ best_image' = st.best_image
           /\ best_confidence' = st.best_confidence
           /\ evaluated' = st.evaluated
    /\ k' = k + 1
    /\ UNCHANGED <<variant, webVars, images, sel_pc, sel_result, supplement_facts_found, anaVars,
                   pipeVars>>

\* the code after the loop (and the early return for an empty list)
SelReturn ==
    /\ sel_pc = "loop"
    /\ k = Len(images)
    /\ sel_pc' = "returned"
    /\ sel_result' = best_image
    /\ supplement_facts_found' =
          IF best_image # NoneVal THEN supplement_facts_found + 1 ELSE supplement_facts_found
    /\ UNCHANGED <<variant, webVars, images, k, best_image, best_confidence, evaluated, anaVars,
                   pipeVars>>

NextSel == SelStep \/ SelReturn

SpecSel == InitSel /\ [][NextSel]_vars

\* the state after the first analyzer is constructed; the cache directory of
\* the drive variant may hold files that no analyzer wrote
InitAna ==
    /\ variant \in Variants
    /\ SelIdle
    /\ known_extractions = [id \in CacheKeys |-> NoFields]
    /\ cache_files \in {files \in [CacheKeys -> IF variant = "drive"
                                                     THEN {AbsentFile, CorruptFile, ListFile}
                                                     ELSE {AbsentFile}] :
                            files[""] = AbsentFile}
    /\ request_count = 0
    /\ model_requests = 0
    /\ writer = [id \in CacheKeys |-> ""]
    /\ stored_before = [id \in CacheKeys |-> NoFields]
    /\ process = 1
    /\ last = NoCall
    /\ PipeIdle
    /\ WebIdle

\* the entry the cache holds for an image id (NoFields: none)
EntryOf(v, known, files, id) ==
    IF v = "openai" THEN known[id]
    ELSE IF files[id].kind = "obj" THEN files[id].f ELSE NoFields

\* one call of analyze_supplement_facts
Analyze ==
    /\ model_requests < MaxRequests
    /\ \E url \in Urls, att \in AttemptSeqs, resp \in Replies :
         \E o \in {analyze_supplement_facts(variant, known_extractions, cache_files,
                                            url, "Kids Multivitamin", "Acme", att, resp)} :
           \E id \in {extract_image_id(url)} :
             /\ known_extractions' = o.known
             /\ cache_files' = o.files
             /\ request_count' = IF o.counted THEN request_count + 1 ELSE request_count
             /\ model_requests' = IF o.requested THEN model_requests + 1 ELSE model_requests
             /\ writer' = IF o.known # known_extractions \/ o.files # cache_files
                             THEN [writer EXCEPT ![id] = url] ELSE writer
             /\ last' = [url |-> url, id |-> id,
                         resp |-> IF o.requested THEN resp ELSE NoReply,
                         ret |-> o.ret, raised |-> o.raised, how |-> o.how,
                         tries |-> o.tries, sleeps |-> o.sleeps, got |-> o.got,
                         requested |-> o.requested]
    /\ UNCHANGED <<variant, webVars, selVars, stored_before, process, pipeVars>>

\* the process ends and the next run starts: __init__ builds a new analyzer
NewProcess ==
    /\ process < MaxProcesses
    /\ process' = process + 1
    /\ known_extractions' = [id \in CacheKeys |-> NoFields]
    /\ request_count' = 0
    /\ model_requests' = 0
    /\ stored_before' =
          [id \in CacheKeys |-> EntryOf(variant, known_extractions, cache_files, id)]
    /\ writer' = IF variant = "openai" THEN [id \in CacheKeys |-> ""] ELSE writer
    /\ last' = NoCall
    /\ UNCHANGED <<variant, webVars, selVars, cache_files, pipeVars>>

NextAna == Analyze \/ NewProcess

SpecAna == InitAna /\ [][NextAna]_vars

(***************************************************************************)
(* The table.  A row keeps the columns the pipeline reads or writes after  *)
(* the row is created; every cell is a string.                             *)
(***************************************************************************)
Row(term, asin, brand, bsr) ==
    [term |-> term, asin |-> asin, brand |-> brand, bsr |-> bsr, category |-> "",
     image |-> "", ingredients |-> "", dosages |-> "", age_group |-> "", form |-> ""]

\* strings that pandas.read_csv reads as a missing value
NaStrings == {"", "N/A", "NA", "NaN", "nan", "None", "null", "NULL", "n/a", "#N/A", "<NA>"}

\* one cell through read_csv(dtype=str).fillna("")
ReadCell(x) == IF x \in NaStrings THEN "" ELSE x

\* load_existing_data on a file holding the table file_rows (<<>>: no file, or
\* a file without rows: both give an empty table)
load_existing_data(file_rows) ==
    [n \in 1..Len(file_rows) |-> [c \in DOMAIN file_rows[n] |-> ReadCell(file_rows[n][c])]]

\* str(x).strip() of a cell
StripCell(x) == IF x \in {"", " "} THEN "" ELSE x

\* a processed-test that looks at the BSR column only
IsProcessedByRankOnly(row) ==
    StripCell(row.bsr) # "" /\ StripCell(row.bsr) # "nan"

is_product_processed(row) ==
    LET bsr_filled == StripCell(row.bsr) # "" /\ StripCell(row.bsr) # "nan"
        category_filled == StripCell(row.category) # ""
    IN  bsr_filled \/ category_filled

check_search_term_processed(table, search_term) ==
    table # <<>> /\ \E n \in 1..Len(table) : table[n].term = search_term

(***************************************************************************)
(* The product API.  A search page either fails or returns the results the *)
(* catalogue holds for the term and the page; a detail request either      *)
(* fails or returns a product.                                             *)
(***************************************************************************)
Keywords == <<"kids vitamins", "kids omega">>

MaxPages == 2

Rank(category, rank) == [category |-> category, rank |-> rank]

SearchResult(asin, brand, bestsellers_rank) ==
    [asin |-> asin, brand |-> brand, bestsellers_rank |-> bestsellers_rank]

SearchCatalog(search_term, page) ==
    CASE search_term = "kids vitamins" /\ page = 1 -> <<SearchResult("B00AAAAAA1", "", <<>>)>>
      [] search_term = "kids vitamins" /\ page = 2 ->
            <<SearchResult("B00BBBBBB2", "KidCo", <<Rank("Health", Num("12"))>>)>>
      [] search_term = "kids omega" /\ page = 1 -> <<SearchResult("B00AAAAAA1", "", <<>>)>>
      [] OTHER -> <<>>

RECURSIVE SearchPages(_, _, _, _)
SearchPages(search_term, page_ok, page, all_products) ==
    IF page > MaxPages THEN all_products
    ELSE SearchPages(search_term, page_ok, page + 1,
                     IF page_ok[page] THEN all_products \o SearchCatalog(search_term, page)
                     ELSE all_products)

\* page_ok[p]: whether the request for page p succeeds
search_products_multiple_pages(search_term, page_ok) ==
    SearchPages(search_term, page_ok, 1, <<>>)

\* the text f"{category}: #{rank_num}" joined with "; "
BsrInfo(bestsellers_rank) ==
    CASE bestsellers_rank = <<>> -> ""
      [] bestsellers_rank = <<Rank("Health", Num("12"))>> -> "Health: #12"
      [] OTHER -> "Unknown: #N/A"

create_products_dataframe(products, search_term, table) ==
    table \o [n \in 1..Len(products) |->
                Row(search_term, products[n].asin, products[n].brand,
                    BsrInfo(products[n].bestsellers_rank))]

ImgPlain == OkImage("img/71abcXYZ12L._AC_.jpg", {})
ImgLabel == OkImage("img/B0ABCDEFGH._AC_.jpg", {"supplement facts", "serving size"})
ImgLabelAlt == OkImage("img/B0ABCDEFGH_SL1500.jpg", {"supplement facts", "serving size"})

Product(brand, categories, bestsellers_rank, product_images) ==
    [brand |-> brand, categories |-> categories, bestsellers_rank |-> bestsellers_rank,
     images |-> product_images]

ProductFull ==
    Product("Acme", <<"Health", "Vitamins">>, <<Rank("Health", Num("7"))>>,
            <<ImgPlain, ImgLabel>>)
ProductBare == Product("", <<>>, <<>>, <<ImgLabelAlt>>)
ProductNoRank == Product("Acme", <<>>, <<Rank("Health", Missing)>>, <<>>)
ProductCategory == Product("", <<"Health">>, <<>>, <<ImgPlain>>)

Products == {ProductFull, ProductBare, ProductNoRank, ProductCategory}

\* the answer to a detail request: the request raises (http = "error"), or
\* the body says success or not and holds a product or an empty one
DetailReply(http, success, has_product, product) ==
    [http |-> http, success |-> success, has_product |-> has_product, product |-> product]

NoProduct == Product("", <<>>, <<>>, <<>>)

DetailReplies ==
    {DetailReply("error", FALSE, FALSE, NoProduct),
     DetailReply("ok", FALSE, TRUE, ProductFull),
     DetailReply("ok", TRUE, FALSE, NoProduct)}
      \cup {DetailReply("ok", TRUE, TRUE, p) : p \in Products}

get_product_details(reply) ==
    IF reply.http # "ok"
        THEN [success |-> FALSE, error |-> "request error", product |-> NoProduct]
    ELSE IF ~reply.success
        THEN [success |-> FALSE, error |-> "API request failed", product |-> NoProduct]
    ELSE IF ~reply.has_product
        THEN [success |-> FALSE, error |-> "Product data not found", product |-> NoProduct]
    ELSE [success |-> TRUE, error |-> "", product |-> reply.product]

\* ' > '.join(category_names)
CategoryPath(categories) ==
    CASE categories = <<>> -> ""
      [] categories = <<"Health">> -> "Health"
      [] categories = <<"Health", "Vitamins">> -> "Health > Vitamins"
      [] OTHER -> "Other"

\* str(first_rank.get('rank', 'N/A'))
RankText(rank) == IF rank.t = "missing" THEN "N/A" ELSE rank.v

\* what the download and the model answer when the pipeline extracts a label
PipeAttempts == {<<"ok", "ok", "ok">>, <<"error", "error", "error">>}
PipeReplies == {ReplyVitC, ReplyFencedZinc, ReplyTrailingProse}

(***************************************************************************)
(* process_detailed_products: the body of one loop iteration after a       *)
(* successful detail request (source lines 531-592).  The fields the       *)
(* client returns are strings for every modelled reply.                    *)
(***************************************************************************)
\* brand, category and BSR from the detail data (source lines 533-551)
UpdateBasics(row, product_data) ==
    [row EXCEPT
        !.brand = IF @ = "" /\ product_data.brand # "" THEN product_data.brand ELSE @,
        !.category = IF product_data.categories # <<>>
                        THEN CategoryPath(product_data.categories) ELSE @,
        !.bsr = IF product_data.bestsellers_rank # <<>>
                   THEN RankText(product_data.bestsellers_rank[1].rank) ELSE @]

\* writes that store all four returned fields unconditionally
WriteExtractionClobbers(row, supplement_image, o) ==
    IF o.raised THEN [row EXCEPT !.image = supplement_image]
    ELSE [row EXCEPT
            !.image = supplement_image,
            !.ingredients = o.ret[1].v,
            !.dosages = o.ret[2].v,
            !.age_group = o.ret[3].v,
            !.form = o.ret[4].v]

\* the writes after analyze_supplement_facts yields o (source lines 557-586)
WriteExtraction(row, supplement_image, o) ==
    IF o.raised THEN [row EXCEPT !.image = supplement_image]     \* except Exception
    ELSE [row EXCEPT
            !.image = supplement_image,
            !.ingredients = o.ret[1].v,
            !.dosages = o.ret[2].v,
            !.age_group = IF Truthy(o.ret[3]) THEN o.ret[3].v ELSE @,
            !.form = IF Truthy(o.ret[4]) THEN o.ret[4].v ELSE @]

\* counted: the openai variant adds 1 to stats['openai_calls'] after every
\* call of the client that returns (source line 569); the drive variant
\* reports the client's own request_count
Extracted(v, row, sel, o) ==
    [row |-> WriteExtraction(row, sel.best_image, o), known |-> o.known, files |-> o.files,
     counted |-> IF v = "openai" THEN ~o.raised ELSE o.counted,
     requested |-> o.requested, scored |-> Len(sel.evaluated),
     found |-> TRUE,
     ret |-> IF o.raised THEN <<>> ELSE [j \in 1..4 |-> o.ret[j].v]]

\* sel is the final state of the selector loop on the product's images
Reconciled(v, row, sel, known, files, att, resp) ==
    IF sel.best_image = NoneVal
        THEN [row |-> row, known |-> known, files |-> files, counted |-> FALSE,
              requested |-> FALSE, scored |-> Len(sel.evaluated), found |-> FALSE,
              ret |-> <<>>]
    ELSE Extracted(v, row, sel,
                   analyze_supplement_facts(v, known, files, sel.best_image,
                                            "Kids Multivitamin", row.brand, att, resp))

ReconcileRow(v, row, product_data, known, files, att, resp) ==
    Reconciled(v, UpdateBasics(row, product_data),
               SelectorLoop(v, SelectorStart, product_data.images, 1),
               known, files, att, resp)

(***************************************************************************)
(* Specification of the pipeline: runs of main, one after the other, on    *)
(* the same working directory.                                             *)
(***************************************************************************)
MaxRuns == 2
MaxLimit == 2

Init ==
    /\ variant \in Variants
    /\ SelIdle
    /\ AnaIdle
    /\ PipeIdle
    /\ WebIdle

anaGhosts == <<writer, stored_before, process, last>>
selLoopVars == <<images, k, best_image, best_confidence, evaluated, sel_pc, sel_result>>
analyzerState == <<known_extractions, cache_files, request_count, model_requests>>

\* main up to the keyword loop: a new processor, and the table is loaded
StartRun ==
    /\ pc \in {"idle", "done"}
    /\ run < MaxRuns
    /\ run' = run + 1
    /\ limit' \in 0..MaxLimit
    /\ known_extractions' = [id \in CacheKeys |-> NoFields]
    /\ request_count' = 0
    /\ model_requests' = 0
    /\ supplement_facts_found' = 0
    /\ existing_df' = load_existing_data(csv_cwd)
    /\ df' = existing_df'
    /\ keyword_idx' = 0
    /\ idx' = 0
    /\ processed_count' = 0
    /\ step' = NoStep
    /\ pc' = "keywords"
    /\ pages' = [requested |-> {}, failed |-> {}, failed_before |-> pages.failed]
    /\ pass' = [pass EXCEPT !.unpaused = FALSE]
    /\ UNCHANGED <<variant, webVars, selLoopVars, cache_files, anaGhosts, csv_cwd, csv_out, last_saved>>

\* save_results / save_results_to_drive inside the keyword loop
SaveIntermediate(table) ==
    /\ IF variant = "openai"
          THEN csv_cwd' = table /\ UNCHANGED csv_out
          ELSE csv_out' = table /\ UNCHANGED csv_cwd
    /\ last_saved' = table

\* one iteration of `for keyword_idx, search_term in enumerate(keywords)` for
\* a term that the loaded table already holds
KeywordSkip ==
    /\ pc = "keywords"
    /\ keyword_idx < Len(Keywords)
    /\ check_search_term_processed(existing_df, Keywords[keyword_idx + 1])
    /\ keyword_idx' = keyword_idx + 1
    /\ pc' = IF variant = "openai" THEN "process" ELSE pc        \* openai: break
    /\ UNCHANGED <<variant, webVars, selVars, anaVars, run, csv_cwd, csv_out, existing_df, df, limit,
                   idx, processed_count, step, last_saved, pages, pass>>

\* one iteration of the keyword loop that searches
KeywordSearch ==
    /\ pc = "keywords"
    /\ keyword_idx < Len(Keywords)
    /\ ~check_search_term_processed(existing_df, Keywords[keyword_idx + 1])
    /\ \E page_ok \in [1..MaxPages -> BOOLEAN] :
         LET search_term == Keywords[keyword_idx + 1]
             products == search_products_multiple_pages(search_term, page_ok)
         IN  /\ pages' = [pages EXCEPT
                          !.requested = @ \cup {<<search_term, p>> : p \in 1..MaxPages},
                          !.failed = @ \cup {<<search_term, p>> :
                                                p \in {q \in 1..MaxPages : ~page_ok[q]}}]
             /\ IF products = <<>>
                   THEN /\ pc' = pc                              \* continue
                        /\ UNCHANGED <<df, csv_cwd, csv_out, last_saved>>
                   ELSE /\ df' = create_products_dataframe(products, search_term, df)
                        /\ SaveIntermediate(df')
                        /\ pc' = IF variant = "openai" THEN "process" ELSE pc
    /\ keyword_idx' = keyword_idx + 1
    /\ UNCHANGED <<variant, webVars, selVars, anaVars, run, existing_df, limit, idx, processed_count,
                   step, pass>>

\* the keyword loop is exhausted
KeywordsDone ==
    /\ pc = "keywords"
    /\ keyword_idx = Len(Keywords)
    /\ pc' = "process"
    /\ UNCHANGED <<variant, webVars, selVars, anaVars, run, csv_cwd, csv_out, existing_df, df,
                   keyword_idx, limit, idx, processed_count, step, last_saved, pages, pass>>

\* `if df.empty: return`, else process_detailed_products starts
EnterDetail ==
    /\ pc = "process"
    /\ pc' = IF df = <<>> THEN "done" ELSE "detail"
    /\ idx' = 0
    /\ processed_count' = 0
    /\ UNCHANGED <<variant, webVars, selVars, anaVars, run, csv_cwd, csv_out, existing_df, df,
                   keyword_idx, limit, step, last_saved, pages>>
    /\ pass' = [pass EXCEPT !.unpaused = FALSE, !.fetched = {}]

LimitReached == limit # 0 /\ processed_count >= limit

\* `if limit and processed_count >= limit: break`
DetailBreak ==
    /\ pc = "detail"
    /\ idx < Len(df)
    /\ LimitReached
    /\ pc' = "save"
    /\ step' = [NoStep EXCEPT !.kind = "break", !.row = idx + 1]
    /\ UNCHANGED <<variant, webVars, selVars, anaVars, run, csv_cwd, csv_out, existing_df, df,
                   keyword_idx, limit, idx, processed_count, last_saved, pages, pass>>

\* the for-loop over the rows is exhausted
DetailEnd ==
    /\ pc = "detail"
    /\ idx = Len(df)
    /\ pc' = "save"
    /\ UNCHANGED <<variant, webVars, selVars, anaVars, run, csv_cwd, csv_out, existing_df, df,
                   keyword_idx, limit, idx, processed_count, step, last_saved, pages, pass>>

\* an iteration on a row that is_product_processed reports processed
DetailSkip ==
    /\ pc = "detail"
    /\ idx < Len(df)
    /\ ~LimitReached
    /\ is_product_processed(df[idx + 1])
    /\ idx' = idx + 1
    /\ step' = [NoStep EXCEPT !.kind = "skipped", !.row = idx + 1]
    /\ UNCHANGED <<variant, webVars, selVars, anaVars, run, pc, csv_cwd, csv_out, existing_df, df,
                   keyword_idx, limit, processed_count, last_saved, pages, pass>>

\* a failure branch that marks the row as having no rank
DetailFetchFailedMarksRow ==
    /\ pc = "detail"
    /\ idx < Len(df)
    /\ ~LimitReached
    /\ ~is_product_processed(df[idx + 1])
    /\ \E reply \in DetailReplies :
         /\ ~get_product_details(reply).success
         /\ step' = [NoStep EXCEPT !.kind = "fetch_failed", !.row = idx + 1,
                                    !.fetched = TRUE,
                                    !.error = get_product_details(reply).error]
    /\ df' = [df EXCEPT ![idx + 1].bsr = "N/A"]
    /\ idx' = idx + 1
    /\ UNCHANGED <<variant, webVars, selVars, anaVars, run, pc, csv_cwd, csv_out, existing_df,
                   keyword_idx, limit, processed_count, last_saved, pages>>
    /\ pass' = [pass EXCEPT !.unpaused = TRUE]                 \* continue: no time.sleep

\* an iteration whose detail request fails
DetailFetchFailed ==
    /\ pc = "detail"
    /\ idx < Len(df)
    /\ ~LimitReached
    /\ ~is_product_processed(df[idx + 1])
    /\ \E reply \in DetailReplies :
         /\ ~get_product_details(reply).success
         /\ step' = [NoStep EXCEPT !.kind = "fetch_failed", !.row = idx + 1,
                                    !.fetched = TRUE,
                                    !.error = get_product_details(reply).error]
    /\ idx' = idx + 1
    /\ UNCHANGED <<variant, webVars, selVars, anaVars, run, pc, csv_cwd, csv_out, existing_df, df,
                   keyword_idx, limit, processed_count, last_saved, pages>>
    /\ pass' = [pass EXCEPT !.unpaused = TRUE]                 \* continue: no time.sleep

\* the iteration issued a model request and the client returned a field
GotExtraction(r) ==
    r.requested /\ r.ret # <<>> /\ \E j \in 1..4 : r.ret[j] # ""

\* an iteration whose detail request succeeds
DetailReconcile ==
    /\ pc = "detail"
    /\ idx < Len(df)
    /\ ~LimitReached
    /\ ~is_product_processed(df[idx + 1])
    /\ \E reply \in DetailReplies, att \in PipeAttempts, resp \in PipeReplies :
         \E r \in {ReconcileRow(variant, df[idx + 1], get_product_details(reply).product,
                                known_extractions, cache_files, att, resp)} :
             /\ get_product_details(reply).success
             /\ df' = [df EXCEPT ![idx + 1] = r.row]
             /\ known_extractions' = r.known
             /\ cache_files' = r.files
             /\ request_count' = IF r.counted THEN request_count + 1 ELSE request_count
             /\ model_requests' = IF r.requested THEN model_requests + 1 ELSE model_requests
             /\ supplement_facts_found' =
                   IF r.found THEN supplement_facts_found + 1 ELSE supplement_facts_found
             /\ step' = [kind |-> "reconciled", row |-> idx + 1, fetched |-> TRUE,
                         error |-> "", scored |-> r.scored, analyzed |-> r.found,
                         ret |-> r.ret]
             /\ pass' = [unpaused |-> FALSE,                     \* time.sleep(1)
                         extracted |-> IF GotExtraction(r)
                                          THEN pass.extracted \cup {r.row.image}
                                          ELSE pass.extracted,
                         fetched |-> pass.fetched \cup {df[idx + 1].asin}]
    /\ idx' = idx + 1
    /\ processed_count' = processed_count + 1
    /\ UNCHANGED <<variant, webVars, selLoopVars, anaGhosts, run, pc, csv_cwd, csv_out, existing_df,
                   keyword_idx, limit, last_saved, pages>>

\* the saves after process_detailed_products
FinalSave ==
    /\ pc = "save"
    /\ IF variant = "openai"
          THEN csv_out' = df /\ csv_cwd' = df
          ELSE csv_out' = df /\ UNCHANGED csv_cwd
    /\ last_saved' = df
    /\ pc' = "done"
    /\ UNCHANGED <<variant, webVars, selVars, anaVars, run, existing_df, df, keyword_idx, limit, idx,
                   processed_count, step, pages, pass>>

\* KeyboardInterrupt, or an exception, inside process_detailed_products:
\* main's handlers print a message and the run ends without the final saves
Interrupt ==
    /\ pc = "detail"
    /\ pc' = "done"
    /\ UNCHANGED <<variant, webVars, selVars, anaVars, run, csv_cwd, csv_out, existing_df, df,
                   keyword_idx, limit, idx, processed_count, step, last_saved, pages, pass>>

Next ==
    \/ StartRun
    \/ KeywordSkip
    \/ KeywordSearch
    \/ KeywordsDone
    \/ EnterDetail
    \/ DetailBreak
    \/ DetailEnd
    \/ DetailSkip
    \/ DetailFetchFailed
    \/ DetailReconcile
    \/ Interrupt
    \/ FinalSave

Spec == Init /\ [][Next]_vars

(***************************************************************************)
(* Specification of the web application (web_app.py): POST /api/start      *)
(* requests, the run_pipeline threads they start and the pipeline          *)
(* subprocesses those threads spawn.  A thread is                          *)
(* [pc, i, proc, cmd, returncode]: pc is "created" (Thread.start() was     *)
(* called, run_pipeline has not executed its first statement), "begun",    *)
(* "waiting" (the subprocess is spawned) or "ended"; i is the variable of  *)
(* the progress loop; proc is "none", "running" or "exited".               *)
(***************************************************************************)
MaxStarts == 3

\* the options main's ArgumentParser defines (pipeline_openai_complete.py)
ParserOptions ==
    {"--rainforest-key", "--openai-key", "--keywords-file", "--output-file", "--max-pages",
     "--detail-limit"}

RequiredOptions == {"--rainforest-key", "--openai-key"}

\* the options of the command line that run_pipeline builds
WebCmd ==
    <<"--rainforest-key", "--openai-key", "--keyword-limit", "--detail-limit",
      "--output-file">>

\* parser.parse_args: the exit status, 0 when parsing succeeds.  No option
\* of the modelled command lines is a proper prefix of a parser option, so
\* argparse's abbreviation matching reduces to equality
parse_args(cmd) ==
    IF /\ \A n \in 1..Len(cmd) : cmd[n] \in ParserOptions
       /\ \A o \in RequiredOptions : \E n \in 1..Len(cmd) : cmd[n] = o
        THEN 0 ELSE 2

\* the return code of `python3 pipeline_openai_complete.py cmd`: main catches
\* KeyboardInterrupt and Exception, so after parsing it ends with status 0
PipelineReturnCode(cmd) == parse_args(cmd)

NewThread == [pc |-> "created", i |-> 20, proc |-> "none", cmd |-> <<>>, returncode |-> 0]

InitWeb ==
    /\ variant = "openai"
    /\ SelIdle
    /\ AnaIdle
    /\ PipeIdle
    /\ pipeline_status = StatusReady
    /\ threads = <<>>
    /\ responses = <<>>
    /\ keys_set \in BOOLEAN

\* the handler of POST /api/start
api_start ==
    /\ Len(responses) < MaxStarts
    /\ IF pipeline_status.running
          THEN /\ responses' = Append(responses, FALSE)
               /\ UNCHANGED threads
          ELSE /\ threads' = Append(threads, NewThread)         \* thread.start()
               /\ responses' = Append(responses, TRUE)
    /\ UNCHANGED <<variant, selVars, anaVars, pipeVars, pipeline_status, keys_set>>

\* run_pipeline, the statements before the try block
RunBegin(t) ==
    /\ threads[t].pc = "created"
    /\ pipeline_status' = [pipeline_status EXCEPT !.running = TRUE, !.progress = 0,
                                                  !.message = "init"]
    /\ threads' = [threads EXCEPT ![t].pc = "begun"]
    /\ UNCHANGED <<variant, selVars, anaVars, pipeVars, responses, keys_set>>

\* run_pipeline from the key check to subprocess.Popen
RunLaunch(t) ==
    /\ threads[t].pc = "begun"
    /\ IF ~keys_set
          THEN /\ pipeline_status' = [pipeline_status EXCEPT !.message = "keys_missing",
                                                             !.running = FALSE]
               /\ threads' = [threads EXCEPT ![t].pc = "ended"]
          ELSE /\ pipeline_status' = [pipeline_status EXCEPT !.progress = 20,
                                                             !.message = "processing"]
               /\ threads' = [threads EXCEPT ![t].pc = "waiting", ![t].proc = "running",
                                             ![t].cmd = WebCmd]
    /\ UNCHANGED <<variant, selVars, anaVars, pipeVars, responses, keys_set>>

\* the pipeline subprocess of thread t terminates
ProcExit(t) ==
    /\ threads[t].proc = "running"
    /\ threads' = [threads EXCEPT ![t].proc = "exited",
                                  ![t].returncode = PipelineReturnCode(threads[t].cmd)]
    /\ UNCHANGED <<variant, selVars, anaVars, pipeVars, pipeline_status, responses, keys_set>>

\* one iteration of `for i in range(20, 90, 10)`
RunPoll(t) ==
    /\ threads[t].pc = "waiting"
    /\ threads[t].i < 90
    /\ pipeline_status' =
          IF threads[t].proc = "running"                         \* process.poll() is None
             THEN [pipeline_status EXCEPT !.progress = threads[t].i]
             ELSE pipeline_status
    /\ threads' = [threads EXCEPT ![t].i = @ + 10]
    /\ UNCHANGED <<variant, selVars, anaVars, pipeVars, responses, keys_set>>

\* process.communicate() returns; the result is reported; finally
RunFinish(t) ==
    /\ threads[t].pc = "waiting"
    /\ threads[t].i = 90
    /\ threads[t].proc = "exited"
    /\ pipeline_status' =
          IF threads[t].returncode = 0
             THEN [running |-> FALSE, progress |-> 100, message |-> "completed",
                   results_file |-> "kids_supplements.csv"]
             ELSE [pipeline_status EXCEPT !.message = "failed", !.running = FALSE]
    /\ threads' = [threads EXCEPT ![t].pc = "ended"]
    /\ UNCHANGED <<variant, selVars, anaVars, pipeVars, responses, keys_set>>

NextWeb ==
    \/ api_start
    \/ \E t \in DOMAIN threads :
          RunBegin(t) \/ RunLaunch(t) \/ ProcExit(t) \/ RunPoll(t) \/ RunFinish(t)

SpecWeb == InitWeb /\ [][NextWeb]_vars

(***************************************************************************)
(* Properties of the selector.                                             *)
(***************************************************************************)
\* positions of the list that carry a non-empty link, in input order
LinkedPositions == SelectSeq([p \in 1..Len(images) |-> p], LAMBDA p : images[p].link # "")

Analysis(p) == analyze_image_for_supplement_facts(variant, images[p])

\* positions whose candidate the scorer reports accessible and relevant
RelevantPositions ==
    {p \in 1..Len(images) :
        images[p].link # "" /\ Analysis(p).accessible /\ Analysis(p).contains_supplement_facts}

\* C2 (as claimed): a returned URL never has a scorer confidence less than or
\* equal to the acceptance threshold of the variant (0.6 openai, 0.3 drive).
C2_ReturnedAboveThreshold ==
    (sel_pc = "returned" /\ sel_result # NoneVal) =>
        \A p \in 1..Len(images) :
            images[p].link = sel_result => Analysis(p).confidence > Threshold(variant)

\* C6: when the selector returns, it has analysed every candidate with a
\* non-empty link exactly once and in input order, and the value returned is
\* the link of the earliest candidate among the relevant ones of maximum
\* confidence, or None when no candidate is relevant (or the list is empty).
C6_BestOfAll ==
    sel_pc = "returned" =>
        /\ evaluated = LinkedPositions
        /\ IF RelevantPositions = {} THEN sel_result = NoneVal
           ELSE \E p \in RelevantPositions :
                  /\ sel_result = images[p].link
                  /\ \A q \in RelevantPositions :
                        \/ Analysis(q).confidence < Analysis(p).confidence
                        \/ Analysis(q).confidence = Analysis(p).confidence /\ p <= q

\* C6 witness: scores 0.2, 0.65, 0.9 under threshold 0.3 select the third.
C6_Witness ==
    /\ variant = "drive"
    /\ sel_pc = "returned"
    /\ Len(images) = 3
    /\ Analysis(1).confidence = 20 /\ Analysis(2).confidence = 65 /\ Analysis(3).confidence = 90
    /\ RelevantPositions = {2, 3}
    /\ evaluated = <<1, 2, 3>>
    /\ sel_result = "imgC"

(***************************************************************************)
(* Properties of the extraction client.                                    *)
(***************************************************************************)
\* the entry the cache holds now for an image id
Entry(id) == EntryOf(variant, known_extractions, cache_files, id)

\* C3: once a result is stored under image identifier X, a later call on the
\* same analyzer with a URL whose identifier is X returns exactly the four
\* stored fields, downloads nothing and issues no model request.
C3_CacheHitReturnsStored ==
    [][(process' = process /\ last'.id \in ImageIds /\ Entry(last'.id) # NoFields) =>
          /\ ~last'.raised
          /\ last'.ret = Tuple4(Entry(last'.id))
          /\ last'.tries = 0
          /\ ~last'.requested
          /\ model_requests' = model_requests]_vars

\* C3 witness: a call answered from an entry that a call with another URL of
\* the same identifier wrote.
C3_Witness ==
    /\ last.how = "cache_hit"
    /\ last.id \in ImageIds
    /\ writer[last.id] \notin {"", last.url}
    /\ last.ret = Tuple4(Entry(last.id))
    /\ ~last.requested

\* replies that are not one JSON document once the fence markers the code
\* knows are stripped
MalformedReplies == {ReplyTrailingProse, ReplyProse, ReplyBareFence}

\* C4: when the reply is not parseable as JSON, the call returns four empty
\* strings, raises nothing and leaves the cache as it was.
C4_MalformedReplyIsSoftFailure ==
    [][(process' = process /\ last'.requested /\ last'.resp \in MalformedReplies) =>
          /\ last'.ret = Empties
          /\ ~last'.raised
          /\ known_extractions' = known_extractions
          /\ cache_files' = cache_files]_vars

\* C4 witness: a JSON object followed by prose was received for a URL with an
\* identifier, and no entry exists for it.
C4_Witness ==
    /\ last.requested
    /\ last.resp = ReplyTrailingProse
    /\ last.id \in ImageIds
    /\ last.ret = Empties
    /\ Entry(last.id) = NoFields

\* C5 (as claimed): every call returns a tuple of exactly four strings and
\* raises nothing.
C5_FourStringsNeverRaises ==
    last # NoCall =>
        /\ ~last.raised
        /\ Len(last.ret) = 4
        /\ \A j \in 1..4 : last.ret[j].t = "str"

\* C9 (as claimed): an entry cached for identifier X by an earlier process is
\* returned, without a model request, by a call in a later process.
C9_CacheSurvivesProcess ==
    (last # NoCall /\ last.id \in ImageIds /\ stored_before[last.id] # NoFields) =>
        /\ ~last.requested
        /\ last.ret = Tuple4(stored_before[last.id])

\* C10: a call of analyze_supplement_facts never changes or removes the four
\* fields of an entry that exists: only a call that found no entry writes one.
C10_EntriesAreNeverRewritten ==
    [][process' = process =>
          \A id \in ImageIds :
              Entry(id) # NoFields =>
                  EntryOf(variant, known_extractions', cache_files', id) = Entry(id)]_vars

\* C10 witness: an entry written in an earlier process is still there after a
\* later call for its identifier.
C10_Witness ==
    /\ process = 2
    /\ last.id \in ImageIds
    /\ last.how = "cache_hit"
    /\ stored_before[last.id] # NoFields
    /\ Entry(last.id) = stored_before[last.id]

(***************************************************************************)
(* Properties of the pipeline.                                             *)
(***************************************************************************)
\* a row whose BSR or category cell is non-empty
RowFilled(row) == row.bsr # "" \/ row.category # ""

\* a row that holds a cell only the detail pass writes
PassWritten(row) ==
    \/ row.image # ""
    \/ row.ingredients # ""
    \/ row.dosages # ""
    \/ row.age_group # ""
    \/ row.form # ""

\* C1: when the detail pass reaches a row whose BSR or category is non-empty,
\* it issues no detail request, scores no image and calls no extraction for
\* it, leaves the row (and the table) unchanged, and does not count the row
\* toward the limit.
C1_ProcessedRowsAreSkipped ==
    [][(pc = "detail" /\ idx' = idx + 1 /\ RowFilled(df[idx + 1])) =>
          /\ df' = df
          /\ processed_count' = processed_count
          /\ step' = [NoStep EXCEPT !.kind = "skipped", !.row = idx + 1]
          /\ UNCHANGED analyzerState
          /\ supplement_facts_found' = supplement_facts_found]_vars

\* C1 witness: in a second run the pass has skipped a row that holds a
\* category and no BSR.
C1_Witness ==
    /\ run = 2
    /\ step.kind = "skipped"
    /\ df[step.row].category = "Health"
    /\ df[step.row].bsr = ""

\* C7 (as claimed): once a pass has fetched a row's detail successfully and
\* written to the row, the row is processed, and no pass issues a detail
\* request for a row that an earlier pass has written.
C7_RowMutatedInAtMostOnePass ==
    [][(pc = "detail" /\ idx' = idx + 1) =>
          /\ (step'.kind = "reconciled" /\ df' # df) => RowFilled(df'[idx + 1])
          /\ step'.fetched => ~PassWritten(df[idx + 1])]_vars

\* C8 (as claimed): in both variants the table a run starts from is the table
\* that was last saved before it.
C8_RunStartsFromLastSavedTable ==
    [][run' = run + 1 => existing_df' = last_saved]_vars

\* C11 (as claimed): for every limit L >= 0 a pass reconciles at most L rows,
\* and once L rows are reconciled it issues no detail request and changes no
\* row.
C11_AtMostLimitRowsReconciled ==
    [][/\ pc' \in {"detail", "save"} => processed_count' <= limit'
       /\ (pc = "detail" /\ processed_count >= limit) =>
             (df' = df /\ ~(idx' = idx + 1 /\ step'.fetched))]_vars

\* C12: when get_product_details fails for a row, the pass leaves the whole
\* table as it is (the row, and what it wrote to earlier rows), the row stays
\* unprocessed, and the pass goes on with the next row; and a pass that
\* advances over an unprocessed row always issues the detail request for it.
C12_FailedFetchLeavesRowForNextPass ==
    [][(pc = "detail" /\ idx' = idx + 1) =>
          /\ step'.kind = "fetch_failed" =>
                /\ df' = df
                /\ ~RowFilled(df'[idx + 1])
                /\ pc' = "detail"
          /\ ~RowFilled(df[idx + 1]) => step'.fetched]_vars

\* C12 witness: the detail request of the second row came back with an empty
\* product after this pass had written a label image to the first row.
C12_Witness ==
    /\ step.kind = "fetch_failed"
    /\ step.error = "Product data not found"
    /\ step.row = 2
    /\ df[1].image # ""
    /\ last_saved[1].image = ""
    /\ ~RowFilled(df[2])

\* the waits, in seconds, before attempts 2 and 3
Backoff == <<1, 2>>

\* C13 (as claimed): a call that downloads makes at most 3 attempts, waits
\* 1 s after the first failed attempt and 2 s after the second and never
\* after the third; an attempt that raises or returns fewer than 1000 bytes
\* is failed and retried; the model request is issued only after an attempt
\* succeeded; when the third attempt fails too, the call returns four empty
\* strings, issues no model request and writes no cache entry.
C13_DownloadRetriesWithBackoff ==
    [][(process' = process /\ last'.tries > 0) =>
          /\ last'.tries <= 3
          /\ last'.sleeps = SubSeq(Backoff, 1, last'.tries - 1)
          /\ last'.requested => last'.got = "ok"
          /\ last'.got # "ok" =>
                /\ last'.tries = 3
                /\ last'.ret = Empties
                /\ ~last'.requested
                /\ known_extractions' = known_extractions
                /\ cache_files' = cache_files]_vars

\* positions whose candidate fails to download, to decode or to be read
FailedPositions ==
    {p \in 1..Len(images) :
        /\ images[p].link # ""
        /\ \/ images[p].status # "ok"
           \/ ~images[p].decodable
           \/ ~images[p].ocr_ok}

\* C14: a candidate whose download, decoding or OCR fails is reported by the
\* scorer as not relevant (contains_supplement_facts false, confidence 0);
\* the selector still evaluates every remaining candidate, so a relevant
\* candidate later in the list is still selected.
C14_FailedCandidateIsSkipped ==
    sel_pc = "returned" =>
        /\ \A p \in FailedPositions :
              /\ ~Analysis(p).contains_supplement_facts
              /\ Analysis(p).confidence = 0
              /\ sel_result # images[p].link
        /\ evaluated = LinkedPositions
        /\ (\E p \in FailedPositions, q \in RelevantPositions : p < q) => sel_result # NoneVal

\* C14 witness: the first candidate cannot be decoded, the second answers
\* HTTP 500, the third is a readable label and is the one returned.
C14_Witness ==
    /\ sel_pc = "returned"
    /\ Len(images) = 3
    /\ images[1].status = "ok" /\ ~images[1].decodable
    /\ images[2].status = "http_error"
    /\ FailedPositions = {1, 2}
    /\ RelevantPositions = {3}
    /\ evaluated = <<1, 2, 3>>
    /\ sel_result = "imgC"

\* C16 (as claimed): every row the keyword loop appends to the table through
\* create_products_dataframe is unprocessed: its BSR and category are blank
\* and is_product_processed is false, whatever the search result carried.
C16_CreatedRowsAreUnprocessed ==
    [][pc = "keywords" =>
          \A n \in (Len(df) + 1)..Len(df') :
              /\ df'[n].bsr = ""
              /\ df'[n].category = ""
              /\ ~is_product_processed(df'[n])]_vars

\* C17 (as claimed): once the keyword loop of a run is over, every search
\* page whose request failed in the run before has been requested again in
\* this run.
C17_FailedPageIsRequestedNextRun ==
    (run >= 2 /\ pc \in {"process", "detail", "save", "done"}) =>
        pages.failed_before \subseteq pages.requested

\* the JSON objects a reply wraps in a markdown code fence, with or without
\* the json tag (empty when the reply is not of that shape)
FencedPayloads(resp) ==
    {doc \in {ObjDoc(FieldsVitC), ObjDoc(FieldsZinc), ObjDoc(FieldsList)} :
        /\ resp.api = "ok"
        /\ resp.content \in
              {<<Tok("fence"), Tok("tag"), Tok("ws"), JsonTok(doc), Tok("ws"), Tok("fence")>>,
               <<Tok("fence"), Tok("ws"), JsonTok(doc), Tok("ws"), Tok("fence")>>}}

\* what the call would have done had the model answered the bare document
BareOutcome(url, doc) ==
    analyze_supplement_facts(variant, known_extractions, cache_files, url,
                             "Kids Multivitamin", "Acme", <<"ok", "ok", "ok">>,
                             Reply(<<JsonTok(doc)>>))

\* C18 (as claimed): a model reply that wraps a valid JSON object P in a
\* markdown code fence, with or without the json tag, gives the same four
\* returned fields and the same cache write as the reply that is P alone.
C18_FencedReplyEqualsBareReply ==
    [][(process' = process /\ last'.requested) =>
          \A doc \in FencedPayloads(last'.resp) :
              /\ last'.ret = BareOutcome(last'.url, doc).ret
              /\ known_extractions' = BareOutcome(last'.url, doc).known
              /\ cache_files' = BareOutcome(last'.url, doc).files]_vars

\* C19: a call whose URL yields no image id (the empty string) is never
\* answered from the cache and leaves the cache as it was; when its download
\* succeeds it issues exactly one model request, however many calls with
\* that URL were made before.
C19_NoIdMeansNoCaching ==
    [][(process' = process /\ last'.id = "") =>
          /\ last'.how # "cache_hit"
          /\ known_extractions' = known_extractions
          /\ cache_files' = cache_files
          /\ last'.got = "ok" =>
                /\ last'.requested
                /\ model_requests' = model_requests + 1]_vars

\* C19 witness: the second call in a row with a URL without an id, after a
\* first call that parsed a reply, has issued the second model request.
C19_Witness ==
    /\ last.url = "img/71abcXYZ12L._AC_.jpg"
    /\ last.id = ""
    /\ last.how = "parsed"
    /\ model_requests = 2
    /\ request_count = IF variant = "drive" THEN 2 ELSE 0
    /\ \A id \in CacheKeys : Entry(id) = NoFields

C21_PauseBetweenDetailFetches ==
    [][(pc = "detail" /\ idx' = idx + 1 /\ step'.fetched) => ~pass.unpaused]_vars

\* candidates that are downloaded with a body below the minimum size
SmallPositions ==
    {p \in 1..Len(images) :
        images[p].link # "" /\ images[p].status = "ok" /\ images[p].size < MinScorerBytes}

\* C22 (as claimed): in both variants a candidate whose body is below the
\* minimum size is reported not relevant, text recognition is not run on it,
\* and the selector does not return it.
C22_SmallImageRejectedWithoutOcr ==
    sel_pc = "returned" =>
        \A p \in SmallPositions :
            /\ ~Analysis(p).contains_supplement_facts
            /\ ~Analysis(p).ocr_ran
            /\ sel_result # images[p].link

\* candidates on which the scorer reaches the keyword search
ScoredPositions ==
    {p \in 1..Len(images) :
        /\ images[p].link # "" /\ images[p].status = "ok" /\ images[p].decodable
        /\ images[p].ocr_ok
        /\ variant = "openai" => images[p].size >= MinScorerBytes}

\* the one weight the anchor phrase is to contribute
AnchorWeightOnce(v, text) ==
    IF InText("supplement facts", text)
        THEN IF v = "openai" THEN 90 ELSE DriveWeight("supplement facts")
    ELSE IF InText("supplement fact", text)
        THEN IF v = "openai" THEN 80 ELSE DriveWeight("supplement fact")
    ELSE 0

\* the weights of the matched keywords other than the two anchor phrases
OtherWeights(v, text) ==
    IF v = "openai"
        THEN LET hits == SelectSeq(additional, LAMBDA a : InText(a.kw, text))
             IN  SumSeq([j \in 1..Len(hits) |-> hits[j].w])
        ELSE LET hits == SelectSeq(supplement_keywords,
                                   LAMBDA kw : /\ kw \notin {"supplement facts", "supplement fact"}
                                               /\ InText(kw, text))
             IN  SumSeq([j \in 1..Len(hits) |-> DriveWeight(hits[j])])

\* C23 (as claimed): when the recognised text holds 'supplement facts' the
\* scorer does not also count the softer phrase 'supplement fact'; the
\* reported confidence is the anchor's single weight plus the weights of the
\* other matched keywords, capped at 1.0.
C23_AnchorCountedOnce ==
    sel_pc = "returned" =>
        \A p \in ScoredPositions :
            /\ InText("supplement facts", images[p].text) =>
                  \A j \in 1..Len(Analysis(p).keywords_found) :
                      Analysis(p).keywords_found[j] # "supplement fact"
            /\ Analysis(p).confidence =
                  Min(AnchorWeightOnce(variant, images[p].text)
                        + OtherWeights(variant, images[p].text), 100)

\* C24 (as claimed): a call that writes a cache entry returns the four
\* fields it stored, and a call that ends in an error (four empty strings
\* from a failed download, a failed request, an unparseable reply or any
\* other exception) writes no cache entry.
C24_ReturnedEqualsStored ==
    [][(process' = process /\ last' # NoCall) =>
          /\ (known_extractions' # known_extractions \/ cache_files' # cache_files) =>
                last'.ret = Tuple4(EntryOf(variant, known_extractions', cache_files', last'.id))
          /\ last'.how \notin {"parsed", "cache_hit"} =>
                (known_extractions' = known_extractions /\ cache_files' = cache_files)]_vars

(***************************************************************************)
(* Properties of the web application.                                      *)
(***************************************************************************)
\* the run_pipeline threads that were started and have not ended
LiveThreads == {t \in DOMAIN threads : threads[t].pc # "ended"}

\* C25 (as claimed): at most one started run_pipeline thread is alive, at
\* most one pipeline subprocess is running, and a start request answered
\* while a thread is alive gets success = false and starts no thread.
C25_AtMostOneRun ==
    [][/\ Cardinality({t \in DOMAIN threads' : threads'[t].pc # "ended"}) <= 1
       /\ Cardinality({t \in DOMAIN threads' : threads'[t].proc = "running"}) <= 1
       /\ (Len(responses') = Len(responses) + 1 /\ LiveThreads # {}) =>
             (~responses'[Len(responses')] /\ threads' = threads)]_vars

\* C28 (as claimed): every pipeline subprocess a run_pipeline thread spawns
\* is given only options that the parser of pipeline_openai_complete.py
\* accepts, and ends with return code 0, the condition of the web status
\* 'completed'.
C28_WebCommandIsAccepted ==
    \A t \in DOMAIN threads :
        /\ threads[t].proc # "none" =>
              \A n \in 1..Len(threads[t].cmd) : threads[t].cmd[n] \in ParserOptions
        /\ threads[t].proc = "exited" => threads[t].returncode = 0

\* C26 (as claimed): no model request is issued for a label image for which
\* a model request of this or an earlier run has already returned an
\* extraction, whether the earlier run ended normally or was interrupted.
C26_ExtractionIsNotRepeated ==
    [][(pc = "detail" /\ idx' = idx + 1 /\ model_requests' = model_requests + 1) =>
          df'[idx + 1].image \notin pass.extracted]_vars

\* C27 (as claimed): during and after the detail pass the model-call counter
\* of the final summary equals the number of model requests issued in the
\* run.
C27_CounterEqualsModelRequests ==
    pc \in {"detail", "save", "done"} => request_count = model_requests

\* C29 (as claimed): when the keyword loop of main is left and detail
\* processing starts, every keyword of the loaded list has been handled,
\* that is, searched or recognised as already present in the loaded table.
C29_AllKeywordsHandledBeforeDetail ==
    pc \in {"process", "detail"} => keyword_idx = Len(Keywords)

\* C30 (as claimed): within one pass of process_detailed_products a detail
\* fetch that succeeds is never for an ASIN already fetched successfully in
\* the same pass.
C30_AsinFetchedOncePerPass ==
    [][(pc = "detail" /\ idx' = idx + 1 /\ step'.kind = "reconciled") =>
          df[idx + 1].asin \notin pass.fetched]_vars

====
